---- MODULE Spec2Model ----
(***************************************************************************)
(* State-machine model of micromark-extension-math-extended:               *)
(*   dev/lib/math-text.js  inline spans  $..$  \(..\)  \[..\]  + resolver   *)
(*   dev/lib/math-flow.js  fenced blocks $$..$$  \[..\]                     *)
(* One action per tokenizer state function.  The host (micromark) feeds    *)
(* one character code at a time, keeps the event list and the token stack, *)
(* and rewinds failed sub-attempts.                                        *)
(***************************************************************************)
EXTENDS Integers, Sequences, FiniteSets, TLC

VARIABLES
    options,     \* argument of mathText(options)
    construct,   \* which construct the host offers: the tokenizer that runs
    input,       \* character codes the host has fed so far ("eof" can only be last)
    pos,         \* offset of the current code in input (1-based)
    previous,    \* self.previous: the code consumed last
    events,      \* self.events: sequence of [kind, tok]
    tokens,      \* token objects, shared by an enter and its exit: [type, start, end]
    stack,       \* tokens entered and not yet exited
    from,        \* Len(events) when the attempt started
    pc,          \* the state function waiting for the current code, or the outcome
    sizeOpen,    \* let sizeOpen
    size,        \* let size
    token,       \* let token (index in tokens, 0 = unset)
    line,        \* self.now().line
    attempts,    \* the host's running attempts, innermost last: what to restore, where to go
    interrupt,   \* self.interrupt
    disableCodeIndented,  \* self.parser.constructs.disable.null.includes('codeIndented')
    lazy,        \* self.parser.lazy: the lines the host has marked lazy
    space        \* the running factorySpace: [type, bounded, limit, size, ok]

vars == <<options, construct, input, pos, previous, events, tokens, stack,
          from, pc, sizeOpen, size, token, line, attempts, interrupt,
          disableCodeIndented, lazy, space>>

\* fixed when the attempt is set up
setup == <<options, construct, from, interrupt, disableCodeIndented>>
\* written by the host's reader only
stream == <<input, lazy>>

\* ------------------------------------------------------------------ bounds
MaxLen == 7      \* codes fed to one inline attempt, the final eof included
MaxFlowLen == 7  \* codes fed to one block attempt, the final eof included
MaxIndent == 2   \* widest line prefix in front of an opening fence
MaxFenceLen == 10 \* codes of a stream that starts with an opening fence line, eof included

NoSpace == [type |-> "none", bounded |-> FALSE, limit |-> 0, size |-> 0, ok |-> "none"]

\* ------------------------------------------------------------------ codes
Alphabet(c) ==
    CASE c \in {"mathTextDollar", "mathFlowDollar"}
                              -> {"dollarSign", "space", "lineFeed", "lowercaseA"}
      [] c = "mathFlowBackslash"
                              -> {"backslash", "leftSquareBracket", "rightSquareBracket",
                                  "space", "lineFeed", "lowercaseA"}
      [] c = "mathTextParen"   -> {"backslash", "leftParenthesis", "rightParenthesis",
                                    "rightSquareBracket", "space", "lineFeed", "lowercaseA"}
      [] c = "mathTextBracket" -> {"backslash", "leftSquareBracket", "rightSquareBracket",
                                    "rightParenthesis", "space", "lineFeed", "lowercaseA"}

markdownLineEnding(code) == code = "lineFeed"

\* the character a construct is registered under (math(): text / flow maps)
Trigger(c) == IF c \in {"mathTextDollar", "mathFlowDollar"} THEN "dollarSign" ELSE "backslash"

OtherTrigger(c) == IF Trigger(c) = "dollarSign" THEN "backslash" ELSE "dollarSign"


\* variant: both backslash constructs close on `]`
Close_bracket(c) == "rightSquareBracket"

\* createBackslashMathText(open, close), as called by mathText
Open(c)  == IF c = "mathTextParen" THEN "leftParenthesis" ELSE "leftSquareBracket"
Close(c) == IF c = "mathTextParen" THEN "rightParenthesis" ELSE "rightSquareBracket"

\* ------------------------------------------------------------------ options
OptionValues == {"true", "false", "null", "undefined"}
Options ==
    {[given |-> g, singleDollarTextMath |-> "undefined"] : g \in {"null", "undefined"}}
    \cup {[given |-> "object", singleDollarTextMath |-> v] : v \in OptionValues}


\* variant: only an explicit true allows a single dollar
single_defaultFalse(o) ==
    LET s == IF o.given = "object" THEN o.singleDollarTextMath ELSE "undefined"
    IN  IF s = "null" \/ s = "undefined" THEN "false" ELSE s

\* mathText: const options_ = options || {}; let single = ...; default true
single(o) ==
    LET s == IF o.given = "object" THEN o.singleDollarTextMath ELSE "undefined"
    IN  IF s = "null" \/ s = "undefined" THEN "true" ELSE s

allowSingle == single(options) = "true"

\* ------------------------------------------------------------------ effects
Eff == [events |-> events, tokens |-> tokens, stack |-> stack]

\* effects.enter(type) with the cursor at offset `at`
Enter(e, type, at) ==
    LET id == Len(e.tokens) + 1
    IN  [events |-> Append(e.events, [kind |-> "enter", tok |-> id]),
         tokens |-> Append(e.tokens, [type |-> type, start |-> at, end |-> 0,
                                      exit |-> "none"]),
         stack  |-> Append(e.stack, id)]

\* effects.exit(type): pops the open token, sets its end, pushes the exit event;
\* the token keeps the label the exit was asked for (the host expects
\* token.type === type)
Exit(e, type, at) ==
    LET id == e.stack[Len(e.stack)]
    IN  [events |-> Append(e.events, [kind |-> "exit", tok |-> id]),
         tokens |-> [e.tokens EXCEPT ![id].end = at, ![id].exit = type],
         stack  |-> SubSeq(e.stack, 1, Len(e.stack) - 1)]

\* token.type = type
Retype(e, id, type) == [e EXCEPT !.tokens[id].type = type]

Put(e) == events' = e.events /\ tokens' = e.tokens /\ stack' = e.stack

\* effects.consume(code): the cursor moves on; a line ending starts a new line
Consume(c) ==
    /\ pos' = pos + 1
    /\ previous' = c
    /\ line' = IF markdownLineEnding(c) THEN line + 1 ELSE line

Fed == pos <= Len(input)
code == input[pos]

\* `effects.consume(code); return next`
Eat(next) == Consume(code) /\ pc' = next /\ UNCHANGED attempts

\* `return next(code)`: the same code goes to the next state function
Pass(next) == pc' = next /\ UNCHANGED <<pos, previous, line, attempts>>

\* ------------------------------------------------------------------ host
TextConstructs == {"mathTextDollar", "mathTextParen", "mathTextBracket"}
FlowConstructs == {"mathFlowDollar", "mathFlowBackslash"}

\* the event history before the attempt: the code before the trigger and the
\* last token of self.events (its type and how many characters it spans)
TextContexts(c) ==
    {[previous |-> "eof", tail |-> "none", width |-> 0],
     [previous |-> "lowercaseA", tail |-> "data", width |-> 1],
     [previous |-> OtherTrigger(c), tail |-> "data", width |-> 1],
     [previous |-> Trigger(c), tail |-> "data", width |-> 1],
     [previous |-> Trigger(c), tail |-> "characterEscape", width |-> 2]}

FlowContexts ==
    {[previous |-> "eof", tail |-> "none", width |-> 0]}
    \cup {[previous |-> "space", tail |-> "linePrefix", width |-> w] : w \in 1..MaxIndent}

TailEvents(ctx) ==
    IF ctx.tail = "none" THEN <<>>
    ELSE <<[kind |-> "enter", tok |-> 1], [kind |-> "exit", tok |-> 1]>>

TailTokens(ctx) ==
    IF ctx.tail = "none" THEN <<>>
    ELSE <<[type |-> ctx.tail, start |-> 1 - ctx.width, end |-> 1, exit |-> ctx.tail]>>

\* this.events[this.events.length - 1][1].type
LastEventType == tokens[events[Len(events)].tok].type


\* variant: the escape is not looked at
previousDollar_noEscape(c) == c /= "dollarSign"

\* previousDollar
previousDollar(c) ==
    c /= "dollarSign" \/ LastEventType = "characterEscape"

\* previousBackslash
previousBackslash(c) ==
    c /= "backslash" \/ LastEventType = "characterEscape"

\* the construct's `previous` member; the flow constructs have none
PreviousAccepts ==
    CASE construct = "mathTextDollar" -> previousDollar(previous)
      [] construct \in {"mathTextParen", "mathTextBracket"} -> previousBackslash(previous)
      [] OTHER -> TRUE

Scanning == pc \notin {"offer", "skipped", "ok", "nok", "resolved"}

Top == attempts[Len(attempts)]
Pop == SubSeq(attempts, 1, Len(attempts) - 1)

\* what the host stores when an attempt starts (after the effects e)
Saved(e, okState, nokState) ==
    [ok |-> okState, nok |-> nokState, pos |-> pos, line |-> line, previous |-> previous,
     events |-> Len(e.events), tokens |-> Len(e.tokens), stack |-> e.stack]

\* effects.attempt(construct, okState, nokState)(code), the construct starting at `first`
AttemptFrom(e, first, okState, nokState) ==
    /\ attempts' = Append(attempts, Saved(e, okState, nokState))
    /\ pc' = first
    /\ UNCHANGED <<pos, previous, line>>

\* ok(code) of the innermost attempt: its events stay, its ok state gets the code
ok ==
    /\ pc' = Top.ok
    /\ attempts' = Pop
    /\ UNCHANGED <<pos, previous, line>>

\* nok(code) of the innermost attempt: the host rewinds the cursor and drops the
\* events of the attempt, then its nok state gets the code at the old place
nok ==
    /\ pc' = Top.nok
    /\ attempts' = Pop
    /\ pos' = Top.pos
    /\ line' = Top.line
    /\ previous' = Top.previous
    /\ events' = SubSeq(events, 1, Top.events)
    /\ tokens' = SubSeq(tokens, 1, Top.tokens)
    /\ stack' = Top.stack

\* the line the next code to be fed is on is lazy or not: the host's container
\* tokenizer settles parser.lazy[line] when the line starts
LazyChoices ==
    IF construct \in FlowConstructs /\ input[Len(input)] = "lineFeed"
    THEN BOOLEAN ELSE {FALSE}

Limit == IF construct \in FlowConstructs THEN MaxFlowLen ELSE MaxLen

\* the host reads the next code of the stream
Feed ==
    /\ Scanning
    /\ pos = Len(input) + 1
    /\ input[Len(input)] /= "eof"
    /\ \E c \in (IF Len(input) < Limit - 1 THEN Alphabet(construct) ELSE {}) \cup {"eof"},
          z \in LazyChoices :
           /\ input' = Append(input, c)
           /\ lazy' = IF z THEN lazy \cup {line} ELSE lazy
    /\ UNCHANGED <<setup, pos, previous, line, events, tokens, stack, pc, attempts,
                   sizeOpen, size, token, space>>

\* the host offers the construct at its trigger character, unless the construct's
\* `previous` rejects the code before it
Offer ==
    /\ pc = "offer"
    /\ IF PreviousAccepts
       THEN AttemptFrom(Eff, "start", "ok", "nok")
       ELSE pc' = "skipped" /\ UNCHANGED <<pos, previous, line, attempts>>
    /\ UNCHANGED <<setup, stream, events, tokens, stack, sizeOpen, size, token, space>>

\* ------------------------------------------------------------------ createDollarMathText
InDollar(s) == construct = "mathTextDollar" /\ pc = s /\ Fed

DollarText_start ==
    /\ InDollar("start")
    /\ Put(Enter(Enter(Eff, "mathText", pos), "mathTextSequence", pos))
    /\ Pass("sequenceOpen")
    /\ UNCHANGED <<setup, stream, space, sizeOpen, size, token>>

DollarText_sequenceOpen ==
    /\ InDollar("sequenceOpen")
    /\ IF code = "dollarSign"
       THEN /\ Eat("sequenceOpen")
            /\ sizeOpen' = sizeOpen + 1
            /\ UNCHANGED <<events, tokens, stack>>
       ELSE IF sizeOpen < 2 /\ ~allowSingle
       THEN /\ nok
            /\ UNCHANGED <<sizeOpen>>
       ELSE /\ Put(Exit(Eff, "mathTextSequence", pos))
            /\ Pass("between")
            /\ UNCHANGED sizeOpen
    /\ UNCHANGED <<setup, stream, space, size, token>>


\* variant: the end of input ends the span, as it ends a block
DollarText_between_eofEnds ==
    /\ InDollar("between")
    /\ IF code = "eof"
       THEN /\ Put(Exit(Eff, "mathText", pos))
            /\ ok
            /\ UNCHANGED <<size, token>>
       ELSE IF code = "dollarSign"
       THEN /\ Put(Enter(Eff, "mathTextSequence", pos))
            /\ token' = Len(tokens) + 1
            /\ size' = 0
            /\ Pass("sequenceClose")
       ELSE IF code = "space"
       THEN /\ Put(Exit(Enter(Eff, "space", pos), "space", pos + 1))
            /\ Eat("between")
            /\ UNCHANGED <<size, token>>
       ELSE IF markdownLineEnding(code)
       THEN /\ Put(Exit(Enter(Eff, "lineEnding", pos), "lineEnding", pos + 1))
            /\ Eat("between")
            /\ UNCHANGED <<size, token>>
       ELSE /\ Put(Enter(Eff, "mathTextData", pos))
            /\ Pass("data")
            /\ UNCHANGED <<size, token>>
    /\ UNCHANGED <<setup, stream, space, sizeOpen>>

DollarText_between ==
    /\ InDollar("between")
    /\ IF code = "eof"
       THEN /\ nok
            /\ UNCHANGED <<size, token>>
       ELSE IF code = "dollarSign"
       THEN /\ Put(Enter(Eff, "mathTextSequence", pos))
            /\ token' = Len(tokens) + 1
            /\ size' = 0
            /\ Pass("sequenceClose")
       ELSE IF code = "space"
       THEN /\ Put(Exit(Enter(Eff, "space", pos), "space", pos + 1))
            /\ Eat("between")
            /\ UNCHANGED <<size, token>>
       ELSE IF markdownLineEnding(code)
       THEN /\ Put(Exit(Enter(Eff, "lineEnding", pos), "lineEnding", pos + 1))
            /\ Eat("between")
            /\ UNCHANGED <<size, token>>
       ELSE /\ Put(Enter(Eff, "mathTextData", pos))
            /\ Pass("data")
            /\ UNCHANGED <<size, token>>
    /\ UNCHANGED <<setup, stream, space, sizeOpen>>

DollarText_data ==
    /\ InDollar("data")
    /\ IF code = "eof" \/ code = "space" \/ code = "dollarSign" \/ markdownLineEnding(code)
       THEN /\ Put(Exit(Eff, "mathTextData", pos))
            /\ Pass("between")
       ELSE /\ Eat("data")
            /\ UNCHANGED <<events, tokens, stack>>
    /\ UNCHANGED <<setup, stream, space, sizeOpen, size, token>>


\* variant: a run at least as long as the opening run closes
DollarText_sequenceClose_greedy ==
    /\ InDollar("sequenceClose")
    /\ IF code = "dollarSign"
       THEN /\ Eat("sequenceClose")
            /\ size' = size + 1
            /\ UNCHANGED <<events, tokens, stack>>
       ELSE IF size >= sizeOpen
       THEN /\ Put(Exit(Exit(Eff, "mathTextSequence", pos), "mathText", pos))
            /\ ok
            /\ UNCHANGED size
       ELSE /\ Put(Retype(Eff, token, "mathTextData"))
            /\ Pass("data")
            /\ UNCHANGED size
    /\ UNCHANGED <<setup, stream, space, sizeOpen, token>>


\* variant: a run that does not close goes on as data without being relabelled
DollarText_sequenceClose_keepLabel ==
    /\ InDollar("sequenceClose")
    /\ IF code = "dollarSign"
       THEN /\ Eat("sequenceClose")
            /\ size' = size + 1
            /\ UNCHANGED <<events, tokens, stack>>
       ELSE IF size = sizeOpen
       THEN /\ Put(Exit(Exit(Eff, "mathTextSequence", pos), "mathText", pos))
            /\ ok
            /\ UNCHANGED size
       ELSE /\ Pass("data")
            /\ UNCHANGED <<events, tokens, stack, size>>
    /\ UNCHANGED <<setup, stream, space, sizeOpen, token>>

DollarText_sequenceClose ==
    /\ InDollar("sequenceClose")
    /\ IF code = "dollarSign"
       THEN /\ Eat("sequenceClose")
            /\ size' = size + 1
            /\ UNCHANGED <<events, tokens, stack>>
       ELSE IF size = sizeOpen
       THEN /\ Put(Exit(Exit(Eff, "mathTextSequence", pos), "mathText", pos))
            /\ ok
            /\ UNCHANGED size
       ELSE /\ Put(Retype(Eff, token, "mathTextData"))
            /\ Pass("data")
            /\ UNCHANGED size
    /\ UNCHANGED <<setup, stream, space, sizeOpen, token>>

\* ------------------------------------------------------------------ createBackslashMathText
InBackslash(s) ==
    construct \in {"mathTextParen", "mathTextBracket"} /\ pc = s /\ Fed

BackslashText_start ==
    /\ InBackslash("start")
    /\ Put(Enter(Enter(Eff, "mathText", pos), "mathTextSequence", pos))
    /\ Pass("sequenceOpen")
    /\ UNCHANGED <<setup, stream, space, sizeOpen, size, token>>

BackslashText_sequenceOpen ==
    /\ InBackslash("sequenceOpen")
    /\ IF sizeOpen = 0 /\ code = "backslash"
       THEN /\ Eat("sequenceOpen")
            /\ sizeOpen' = 1
            /\ UNCHANGED <<events, tokens, stack>>
       ELSE IF sizeOpen = 1 /\ code = Open(construct)
       THEN /\ Eat("sequenceOpen")
            /\ sizeOpen' = 2
            /\ UNCHANGED <<events, tokens, stack>>
       ELSE IF sizeOpen < 2
       THEN /\ nok
            /\ UNCHANGED <<sizeOpen>>
       ELSE /\ Put(Exit(Eff, "mathTextSequence", pos))
            /\ Pass("between")
            /\ UNCHANGED sizeOpen
    /\ UNCHANGED <<setup, stream, space, size, token>>

BackslashText_between ==
    /\ InBackslash("between")
    /\ IF code = "eof"
       THEN /\ nok
            /\ UNCHANGED <<size, token>>
       ELSE IF code = "backslash"
       THEN /\ Put(Enter(Eff, "mathTextSequence", pos))
            /\ token' = Len(tokens) + 1
            /\ size' = 0
            /\ Pass("sequenceClose")
       ELSE IF code = "space"
       THEN /\ Put(Exit(Enter(Eff, "space", pos), "space", pos + 1))
            /\ Eat("between")
            /\ UNCHANGED <<size, token>>
       ELSE IF markdownLineEnding(code)
       THEN /\ Put(Exit(Enter(Eff, "lineEnding", pos), "lineEnding", pos + 1))
            /\ Eat("between")
            /\ UNCHANGED <<size, token>>
       ELSE /\ Put(Enter(Eff, "mathTextData", pos))
            /\ Pass("data")
            /\ UNCHANGED <<size, token>>
    /\ UNCHANGED <<setup, stream, space, sizeOpen>>

BackslashText_data ==
    /\ InBackslash("data")
    /\ IF code = "eof" \/ code = "space" \/ code = "backslash" \/ markdownLineEnding(code)
       THEN /\ Put(Exit(Eff, "mathTextData", pos))
            /\ Pass("between")
       ELSE /\ Eat("data")
            /\ UNCHANGED <<events, tokens, stack>>
    /\ UNCHANGED <<setup, stream, space, sizeOpen, size, token>>

BackslashText_sequenceClose ==
    /\ InBackslash("sequenceClose")
    /\ IF size = 2
       THEN /\ Put(Exit(Exit(Eff, "mathTextSequence", pos), "mathText", pos))
            /\ ok
            /\ UNCHANGED size
       ELSE IF size = 0 /\ code = "backslash"
       THEN /\ Eat("sequenceClose")
            /\ size' = 1
            /\ UNCHANGED <<events, tokens, stack>>
       ELSE IF size = 1 /\ code = Close(construct)
       THEN /\ Eat("sequenceClose")
            /\ size' = 2
            /\ UNCHANGED <<events, tokens, stack>>
       ELSE /\ Put(Retype(Eff, token, "mathTextData"))
            /\ Pass("data")
            /\ UNCHANGED size
    /\ UNCHANGED <<setup, stream, space, sizeOpen, token>>

\* ------------------------------------------------------------------ factorySpace
tabSize == 4

\* const limit = max ? max - 1 : Number.POSITIVE_INFINITY
factorySpace(okState, type, bounded, max) ==
    [type |-> type, bounded |-> bounded, limit |-> IF bounded THEN max - 1 ELSE 0,
     size |-> 0, ok |-> okState]

markdownSpace(c) == c = "space"

InSpace(s) == construct \in FlowConstructs /\ pc = s /\ Fed

FactorySpace_start ==
    /\ InSpace("spaceStart")
    /\ IF markdownSpace(code)
       THEN /\ Put(Enter(Eff, space.type, pos))
            /\ Pass("spacePrefix")
       ELSE /\ Pass(space.ok)
            /\ UNCHANGED <<events, tokens, stack>>
    /\ UNCHANGED <<setup, stream, sizeOpen, size, token, space>>

\* if (markdownSpace(code) && size++ < limit)
FactorySpace_prefix ==
    /\ InSpace("spacePrefix")
    /\ IF markdownSpace(code) /\ (~space.bounded \/ space.size < space.limit)
       THEN /\ Eat("spacePrefix")
            /\ space' = [space EXCEPT !.size = space.size + 1]
            /\ UNCHANGED <<events, tokens, stack>>
       ELSE /\ Put(Exit(Eff, space.type, pos))
            /\ Pass(space.ok)
            /\ space' = IF markdownSpace(code)
                        THEN [space EXCEPT !.size = space.size + 1] ELSE space
    /\ UNCHANGED <<setup, stream, sizeOpen, size, token>>

\* ------------------------------------------------------------------ tokenizeMathFenced
kind == IF construct = "mathFlowDollar" THEN "dollar" ELSE "backslash"

\* tail && tail[1].type === types.linePrefix ? sliceSerialize(tail[1], true).length : 0
initialSize ==
    IF from > 0 /\ tokens[events[from].tok].type = "linePrefix"
    THEN tokens[events[from].tok].end - tokens[events[from].tok].start
    ELSE 0

InFenced(s) == construct \in FlowConstructs /\ pc = s /\ Fed

MathFenced_start ==
    /\ InFenced("start")
    /\ Put(Enter(Enter(Enter(Eff, "mathFlow", pos), "mathFlowFence", pos),
                 "mathFlowFenceSequence", pos))
    /\ Pass("sequenceOpen")
    /\ UNCHANGED <<setup, stream, sizeOpen, size, token, space>>

MathFenced_sequenceOpen ==
    /\ InFenced("sequenceOpen")
    /\ IF kind = "dollar" /\ code = "dollarSign"
       THEN /\ Eat("sequenceOpen")
            /\ sizeOpen' = sizeOpen + 1
            /\ UNCHANGED <<events, tokens, stack, space>>
       ELSE IF kind /= "dollar" /\ sizeOpen = 0 /\ code = "backslash"
       THEN /\ Eat("sequenceOpen")
            /\ sizeOpen' = 1
            /\ UNCHANGED <<events, tokens, stack, space>>
       ELSE IF kind /= "dollar" /\ sizeOpen = 1 /\ code = "leftSquareBracket"
       THEN /\ Eat("sequenceOpen")
            /\ sizeOpen' = 2
            /\ UNCHANGED <<events, tokens, stack, space>>
       ELSE IF sizeOpen < 2
       THEN /\ nok
            /\ UNCHANGED <<sizeOpen, space>>
       ELSE /\ Put(Exit(Eff, "mathFlowFenceSequence", pos))
            /\ space' = factorySpace("metaBefore", "whitespace", FALSE, 0)
            /\ Pass("spaceStart")
            /\ UNCHANGED sizeOpen
    /\ UNCHANGED <<setup, stream, size, token>>

MathFenced_metaBefore ==
    /\ InFenced("metaBefore")
    /\ IF code = "eof" \/ markdownLineEnding(code)
       THEN /\ Pass("metaAfter")
            /\ UNCHANGED <<events, tokens, stack>>
       ELSE /\ Put(Enter(Enter(Eff, "mathFlowFenceMeta", pos), "chunkString", pos))
            /\ Pass("meta")
    /\ UNCHANGED <<setup, stream, sizeOpen, size, token, space>>


\* variant: the meta of a dollar fence may hold any character
MathFenced_meta_anyCode ==
    /\ InFenced("meta")
    /\ IF code = "eof" \/ markdownLineEnding(code)
       THEN /\ Put(Exit(Exit(Eff, "chunkString", pos), "mathFlowFenceMeta", pos))
            /\ Pass("metaAfter")
       ELSE /\ Eat("meta")
            /\ UNCHANGED <<events, tokens, stack>>
    /\ UNCHANGED <<setup, stream, sizeOpen, size, token, space>>

MathFenced_meta ==
    /\ InFenced("meta")
    /\ IF code = "eof" \/ markdownLineEnding(code)
       THEN /\ Put(Exit(Exit(Eff, "chunkString", pos), "mathFlowFenceMeta", pos))
            /\ Pass("metaAfter")
       ELSE IF kind = "dollar" /\ code = "dollarSign"
       THEN nok
       ELSE /\ Eat("meta")
            /\ UNCHANGED <<events, tokens, stack>>
    /\ UNCHANGED <<setup, stream, sizeOpen, size, token, space>>


\* variant: the fence is scanned to its end whether or not the host only probes
MathFenced_metaAfter_noProbe ==
    /\ InFenced("metaAfter")
    /\ LET e == Exit(Eff, "mathFlowFence", pos)
       IN  /\ Put(e)
           /\ AttemptFrom(e, "nonLazyStart", "beforeNonLazyContinuation", "after")
    /\ UNCHANGED <<setup, stream, sizeOpen, size, token, space>>

MathFenced_metaAfter ==
    /\ InFenced("metaAfter")
    /\ LET e == Exit(Eff, "mathFlowFence", pos)
       IN  /\ Put(e)
           /\ IF interrupt
              THEN ok
              ELSE AttemptFrom(e, "nonLazyStart", "beforeNonLazyContinuation", "after")
    /\ UNCHANGED <<setup, stream, sizeOpen, size, token, space>>


\* variant: the closing fence may be indented by any width, whatever is disabled
MathFenced_beforeNonLazyContinuation_unbounded ==
    /\ InFenced("beforeNonLazyContinuation")
    /\ AttemptFrom(Eff, "spaceStart", "after", "contentStart")
    /\ size' = 0
    /\ space' = factorySpace("beforeSequenceClose", "linePrefix", FALSE, tabSize)
    /\ UNCHANGED <<setup, stream, events, tokens, stack, sizeOpen, token>>

\* effects.attempt({tokenize: tokenizeClosingFence, partial: true}, after, contentStart);
\* tokenizeClosingFence starts with `let size = 0` and a factorySpace for the line prefix
MathFenced_beforeNonLazyContinuation ==
    /\ InFenced("beforeNonLazyContinuation")
    /\ AttemptFrom(Eff, "spaceStart", "after", "contentStart")
    /\ size' = 0
    /\ space' = factorySpace("beforeSequenceClose", "linePrefix",
                             ~disableCodeIndented, tabSize)
    /\ UNCHANGED <<setup, stream, events, tokens, stack, sizeOpen, token>>


\* variant: a content line is taken as it is, without a line prefix
MathFenced_contentStart_noPrefix ==
    /\ InFenced("contentStart")
    /\ Pass("beforeContentChunk")
    /\ UNCHANGED space
    /\ UNCHANGED <<setup, stream, events, tokens, stack, sizeOpen, size, token>>

MathFenced_contentStart ==
    /\ InFenced("contentStart")
    /\ IF initialSize /= 0
       THEN /\ space' = factorySpace("beforeContentChunk", "linePrefix", TRUE,
                                     initialSize + 1)
            /\ Pass("spaceStart")
       ELSE /\ Pass("beforeContentChunk")
            /\ UNCHANGED space
    /\ UNCHANGED <<setup, stream, events, tokens, stack, sizeOpen, size, token>>


\* variant: an unterminated block fails, as an unterminated span does
MathFenced_beforeContentChunk_eofFails ==
    /\ InFenced("beforeContentChunk")
    /\ IF code = "eof"
       THEN nok
       ELSE IF markdownLineEnding(code)
       THEN /\ AttemptFrom(Eff, "nonLazyStart", "beforeNonLazyContinuation", "after")
            /\ UNCHANGED <<events, tokens, stack>>
       ELSE /\ Put(Enter(Eff, "mathFlowValue", pos))
            /\ Pass("contentChunk")
    /\ UNCHANGED <<setup, stream, sizeOpen, size, token, space>>


\* variant: the end of input asks for a continuation, as a line ending does
MathFenced_beforeContentChunk_eofContinues ==
    /\ InFenced("beforeContentChunk")
    /\ IF code = "eof" \/ markdownLineEnding(code)
       THEN /\ AttemptFrom(Eff, "nonLazyStart", "beforeNonLazyContinuation", "after")
            /\ UNCHANGED <<events, tokens, stack>>
       ELSE /\ Put(Enter(Eff, "mathFlowValue", pos))
            /\ Pass("contentChunk")
    /\ UNCHANGED <<setup, stream, sizeOpen, size, token, space>>

MathFenced_beforeContentChunk ==
    /\ InFenced("beforeContentChunk")
    /\ IF code = "eof"
       THEN /\ Pass("after")
            /\ UNCHANGED <<events, tokens, stack>>
       ELSE IF markdownLineEnding(code)
       THEN /\ AttemptFrom(Eff, "nonLazyStart", "beforeNonLazyContinuation", "after")
            /\ UNCHANGED <<events, tokens, stack>>
       ELSE /\ Put(Enter(Eff, "mathFlowValue", pos))
            /\ Pass("contentChunk")
    /\ UNCHANGED <<setup, stream, sizeOpen, size, token, space>>

MathFenced_contentChunk ==
    /\ InFenced("contentChunk")
    /\ IF code = "eof" \/ markdownLineEnding(code)
       THEN /\ Put(Exit(Eff, "mathFlowValue", pos))
            /\ Pass("beforeContentChunk")
       ELSE /\ Eat("contentChunk")
            /\ UNCHANGED <<events, tokens, stack>>
    /\ UNCHANGED <<setup, stream, sizeOpen, size, token, space>>

MathFenced_after ==
    /\ InFenced("after")
    /\ Put(Exit(Eff, "mathFlow", pos))
    /\ ok
    /\ UNCHANGED <<setup, stream, sizeOpen, size, token, space>>

\* ------------------------------------------------------------------ tokenizeClosingFence
ClosingFence_beforeSequenceClose ==
    /\ InFenced("beforeSequenceClose")
    /\ Put(Enter(Enter(Eff, "mathFlowFence", pos), "mathFlowFenceSequence", pos))
    /\ Pass("sequenceClose")
    /\ UNCHANGED <<setup, stream, sizeOpen, size, token, space>>


\* variant: a dollar closing run must be exactly as long as the opening run
ClosingFence_sequenceClose_exact ==
    /\ InFenced("sequenceClose")
    /\ IF kind = "dollar" /\ code = "dollarSign"
       THEN /\ size' = size + 1
            /\ Eat("sequenceClose")
            /\ UNCHANGED <<events, tokens, stack, space>>
       ELSE IF kind /= "dollar" /\ size = 0 /\ code = "backslash"
       THEN /\ size' = 1
            /\ Eat("sequenceClose")
            /\ UNCHANGED <<events, tokens, stack, space>>
       ELSE IF kind /= "dollar" /\ size = 1 /\ code = "rightSquareBracket"
       THEN /\ size' = 2
            /\ Eat("sequenceClose")
            /\ UNCHANGED <<events, tokens, stack, space>>
       ELSE IF size /= sizeOpen
       THEN /\ nok
            /\ UNCHANGED <<size, space>>
       ELSE /\ Put(Exit(Eff, "mathFlowFenceSequence", pos))
            /\ space' = factorySpace("afterSequenceClose", "whitespace", FALSE, 0)
            /\ Pass("spaceStart")
            /\ UNCHANGED size
    /\ UNCHANGED <<setup, stream, sizeOpen, token>>


\* variant: a closing run that is too short becomes the length to match
ClosingFence_sequenceClose_adopts ==
    /\ InFenced("sequenceClose")
    /\ IF kind = "dollar" /\ code = "dollarSign"
       THEN /\ size' = size + 1
            /\ Eat("sequenceClose")
            /\ UNCHANGED <<events, tokens, stack, space, sizeOpen>>
       ELSE IF kind /= "dollar" /\ size = 0 /\ code = "backslash"
       THEN /\ size' = 1
            /\ Eat("sequenceClose")
            /\ UNCHANGED <<events, tokens, stack, space, sizeOpen>>
       ELSE IF kind /= "dollar" /\ size = 1 /\ code = "rightSquareBracket"
       THEN /\ size' = 2
            /\ Eat("sequenceClose")
            /\ UNCHANGED <<events, tokens, stack, space, sizeOpen>>
       ELSE IF (kind = "dollar" /\ size < sizeOpen) \/ (kind = "backslash" /\ size /= sizeOpen)
       THEN /\ nok
            /\ sizeOpen' = IF size > 0 THEN size ELSE sizeOpen
            /\ UNCHANGED <<size, space>>
       ELSE /\ Put(Exit(Eff, "mathFlowFenceSequence", pos))
            /\ space' = factorySpace("afterSequenceClose", "whitespace", FALSE, 0)
            /\ Pass("spaceStart")
            /\ UNCHANGED <<size, sizeOpen>>
    /\ UNCHANGED <<setup, stream, token>>

ClosingFence_sequenceClose ==
    /\ InFenced("sequenceClose")
    /\ IF kind = "dollar" /\ code = "dollarSign"
       THEN /\ size' = size + 1
            /\ Eat("sequenceClose")
            /\ UNCHANGED <<events, tokens, stack, space>>
       ELSE IF kind /= "dollar" /\ size = 0 /\ code = "backslash"
       THEN /\ size' = 1
            /\ Eat("sequenceClose")
            /\ UNCHANGED <<events, tokens, stack, space>>
       ELSE IF kind /= "dollar" /\ size = 1 /\ code = "rightSquareBracket"
       THEN /\ size' = 2
            /\ Eat("sequenceClose")
            /\ UNCHANGED <<events, tokens, stack, space>>
       ELSE IF (kind = "dollar" /\ size < sizeOpen) \/ (kind = "backslash" /\ size /= sizeOpen)
       THEN /\ nok
            /\ UNCHANGED <<size, space>>
       ELSE /\ Put(Exit(Eff, "mathFlowFenceSequence", pos))
            /\ space' = factorySpace("afterSequenceClose", "whitespace", FALSE, 0)
            /\ Pass("spaceStart")
            /\ UNCHANGED size
    /\ UNCHANGED <<setup, stream, sizeOpen, token>>

ClosingFence_afterSequenceClose ==
    /\ InFenced("afterSequenceClose")
    /\ IF code = "eof" \/ markdownLineEnding(code)
       THEN /\ Put(Exit(Eff, "mathFlowFence", pos))
            /\ ok
       ELSE nok
    /\ UNCHANGED <<setup, stream, sizeOpen, size, token, space>>

\* ------------------------------------------------------------------ tokenizeNonLazyContinuation
NonLazyContinuation_start ==
    /\ InFenced("nonLazyStart")
    /\ IF code = "eof"
       THEN /\ ok
            /\ UNCHANGED <<events, tokens, stack>>
       ELSE /\ Put(Exit(Enter(Eff, "lineEnding", pos), "lineEnding", pos + 1))
            /\ Eat("lineStart")
    /\ UNCHANGED <<setup, stream, sizeOpen, size, token, space>>


\* variant: a lazy line continues the block like any other line
NonLazyContinuation_lineStart_anyLine ==
    /\ InFenced("lineStart")
    /\ ok
    /\ UNCHANGED <<events, tokens, stack>>
    /\ UNCHANGED <<setup, stream, sizeOpen, size, token, space>>

\* self.parser.lazy[self.now().line] ? nok(code) : ok(code)
NonLazyContinuation_lineStart ==
    /\ InFenced("lineStart")
    /\ IF line \in lazy
       THEN nok
       ELSE /\ ok
            /\ UNCHANGED <<events, tokens, stack>>
    /\ UNCHANGED <<setup, stream, sizeOpen, size, token, space>>

\* ------------------------------------------------------------------ resolveMathText
\* A resolver works on [events, tokens]; indices are the source's (0-based).
TypeAt(st, i) == st.tokens[st.events[i + 1].tok].type

Splice(evs, start, count) ==
    SubSeq(evs, 1, start) \o SubSeq(evs, start + count + 1, Len(evs))

isEdge(type) == type = "lineEnding" \/ type = "space"


\* variant: the edges become padding whatever lies between them
dataBetween_always(st, index, tailExitIndex) == TRUE

\* while (++index < tailExitIndex) if (type === 'mathTextData') { ...; break }
RECURSIVE dataBetween(_, _, _)
dataBetween(st, index, tailExitIndex) ==
    LET i == index + 1
    IN  i < tailExitIndex
        /\ (TypeAt(st, i) = "mathTextData" \/ dataBetween(st, i, tailExitIndex))

\* first half: look for padding; gives the list and the two indices
resolvePadding(st) ==
    LET tailExitIndex == Len(st.events) - 4
        headEnterIndex == 3
    IN  IF /\ isEdge(TypeAt(st, headEnterIndex))
           /\ isEdge(TypeAt(st, tailExitIndex))
           /\ dataBetween(st, headEnterIndex, tailExitIndex)
        THEN [st |-> [st EXCEPT
                        !.tokens[st.events[tailExitIndex + 1].tok].type = "mathTextPadding",
                        !.tokens[st.events[headEnterIndex + 1].tok].type = "mathTextPadding"],
              headEnterIndex |-> headEnterIndex + 2,
              tailExitIndex |-> tailExitIndex - 2]
        ELSE [st |-> st, headEnterIndex |-> headEnterIndex, tailExitIndex |-> tailExitIndex]

undefined == -1


\* variant: a line ending does not end a run
RECURSIVE resolveMerge_acrossLines(_, _, _, _)
resolveMerge_acrossLines(st, index, tailExitIndex, enter) ==
    LET i == index + 1
    IN  IF ~(i <= tailExitIndex) THEN st
        ELSE IF enter = undefined
        THEN IF i /= tailExitIndex
             THEN resolveMerge_acrossLines(st, i, tailExitIndex, i)
             ELSE resolveMerge_acrossLines(st, i, tailExitIndex, undefined)
        ELSE IF i = tailExitIndex
        THEN LET t  == st.events[enter + 1].tok
                 s1 == [st EXCEPT !.tokens[t].type = "mathTextData"]
             IN  IF i /= enter + 2
                 THEN resolveMerge_acrossLines(
                        [events |-> Splice(s1.events, enter + 2, i - enter - 2),
                         tokens |-> [s1.tokens EXCEPT
                                       ![t].end = s1.tokens[s1.events[i].tok].end]],
                        enter + 2, tailExitIndex - (i - enter - 2), undefined)
                 ELSE resolveMerge_acrossLines(s1, i, tailExitIndex, undefined)
        ELSE resolveMerge_acrossLines(st, i, tailExitIndex, enter)

\* variant: a run of space tokens alone is left as it is
RECURSIVE resolveMerge_nonWhitespaceOnly(_, _, _, _)
resolveMerge_nonWhitespaceOnly(st, index, tailExitIndex, enter) ==
    LET i == index + 1
    IN  IF ~(i <= tailExitIndex) THEN st
        ELSE IF enter = undefined
        THEN IF i /= tailExitIndex /\ TypeAt(st, i) /= "lineEnding"
             THEN resolveMerge_nonWhitespaceOnly(st, i, tailExitIndex, i)
             ELSE resolveMerge_nonWhitespaceOnly(st, i, tailExitIndex, undefined)
        ELSE IF i = tailExitIndex \/ TypeAt(st, i) = "lineEnding"
        THEN LET t  == st.events[enter + 1].tok
                 s1 == [st EXCEPT !.tokens[t].type = "mathTextData"]
             IN  IF \A k \in enter..(i - 1) : TypeAt(st, k) = "space"
                 THEN resolveMerge_nonWhitespaceOnly(st, i, tailExitIndex, undefined)
                 ELSE IF i /= enter + 2
                 THEN resolveMerge_nonWhitespaceOnly(
                        [events |-> Splice(s1.events, enter + 2, i - enter - 2),
                         tokens |-> [s1.tokens EXCEPT
                                       ![t].end = s1.tokens[s1.events[i].tok].end]],
                        enter + 2, tailExitIndex - (i - enter - 2), undefined)
                 ELSE resolveMerge_nonWhitespaceOnly(s1, i, tailExitIndex, undefined)
        ELSE resolveMerge_nonWhitespaceOnly(st, i, tailExitIndex, enter)

\* variant: a run is merged two tokens at a time
RECURSIVE resolveMerge_pairwise(_, _, _, _)
resolveMerge_pairwise(st, index, tailExitIndex, enter) ==
    LET i == index + 1
    IN  IF ~(i <= tailExitIndex) THEN st
        ELSE IF enter = undefined
        THEN IF i /= tailExitIndex /\ TypeAt(st, i) /= "lineEnding"
             THEN resolveMerge_pairwise(st, i, tailExitIndex, i)
             ELSE resolveMerge_pairwise(st, i, tailExitIndex, undefined)
        ELSE IF i = tailExitIndex \/ TypeAt(st, i) = "lineEnding" \/ i = enter + 4
        THEN LET t  == st.events[enter + 1].tok
                 s1 == [st EXCEPT !.tokens[t].type = "mathTextData"]
             IN  IF i /= enter + 2
                 THEN resolveMerge_pairwise(
                        [events |-> Splice(s1.events, enter + 2, i - enter - 2),
                         tokens |-> [s1.tokens EXCEPT
                                       ![t].end = s1.tokens[s1.events[i].tok].end]],
                        enter + 1, tailExitIndex - (i - enter - 2), undefined)
                 ELSE resolveMerge_pairwise(s1, i - 1, tailExitIndex, undefined)
        ELSE resolveMerge_pairwise(st, i, tailExitIndex, enter)


\* variant: the first token of a run keeps its own end when the others are removed
RECURSIVE resolveMerge_keepEnd(_, _, _, _)
resolveMerge_keepEnd(st, index, tailExitIndex, enter) ==
    LET i == index + 1
    IN  IF ~(i <= tailExitIndex) THEN st
        ELSE IF enter = undefined
        THEN IF i /= tailExitIndex /\ TypeAt(st, i) /= "lineEnding"
             THEN resolveMerge_keepEnd(st, i, tailExitIndex, i)
             ELSE resolveMerge_keepEnd(st, i, tailExitIndex, undefined)
        ELSE IF i = tailExitIndex \/ TypeAt(st, i) = "lineEnding"
        THEN LET t  == st.events[enter + 1].tok
                 s1 == [st EXCEPT !.tokens[t].type = "mathTextData"]
             IN  IF i /= enter + 2
                 THEN resolveMerge_keepEnd(
                        [events |-> Splice(s1.events, enter + 2, i - enter - 2),
                         tokens |-> s1.tokens],
                        enter + 2, tailExitIndex - (i - enter - 2), undefined)
                 ELSE resolveMerge_keepEnd(s1, i, tailExitIndex, undefined)
        ELSE resolveMerge_keepEnd(st, i, tailExitIndex, enter)

\* second half: while (++index <= tailExitIndex) { ... }
RECURSIVE resolveMerge(_, _, _, _)
resolveMerge(st, index, tailExitIndex, enter) ==
    LET i == index + 1
    IN  IF ~(i <= tailExitIndex) THEN st
        ELSE IF enter = undefined
        THEN IF i /= tailExitIndex /\ TypeAt(st, i) /= "lineEnding"
             THEN resolveMerge(st, i, tailExitIndex, i)
             ELSE resolveMerge(st, i, tailExitIndex, undefined)
        ELSE IF i = tailExitIndex \/ TypeAt(st, i) = "lineEnding"
        THEN LET t  == st.events[enter + 1].tok
                 s1 == [st EXCEPT !.tokens[t].type = "mathTextData"]
             IN  IF i /= enter + 2
                 THEN resolveMerge(
                        [events |-> Splice(s1.events, enter + 2, i - enter - 2),
                         tokens |-> [s1.tokens EXCEPT
                                       ![t].end = s1.tokens[s1.events[i].tok].end]],
                        enter + 2, tailExitIndex - (i - enter - 2), undefined)
                 ELSE resolveMerge(s1, i, tailExitIndex, undefined)
        ELSE resolveMerge(st, i, tailExitIndex, enter)

resolveMathText(st) ==
    LET p == resolvePadding(st)
    IN  resolveMerge(p.st, p.headEnterIndex - 1, p.tailExitIndex + 1, undefined)

\* the events of the attempt: context.events.slice(from)
Attempt == [events |-> SubSeq(events, from + 1, Len(events)), tokens |-> tokens]

\* the host, on ok: splice(events, from, length - from, construct.resolve(slice))
AddResult ==
    /\ pc = "ok"
    /\ construct \in TextConstructs
    /\ LET r == resolveMathText(Attempt)
       IN  /\ events' = SubSeq(events, 1, from) \o r.events
           /\ tokens' = r.tokens
    /\ pc' = "resolved"
    /\ UNCHANGED <<setup, stream, pos, previous, line, stack, attempts,
                   sizeOpen, size, token, space>>

\* ------------------------------------------------------------------ specification
InitText ==
    /\ construct \in TextConstructs
    /\ options \in (IF construct = "mathTextDollar" THEN Options
                    ELSE {[given |-> "undefined", singleDollarTextMath |-> "undefined"]})
    /\ \E ctx \in TextContexts(construct) :
          /\ previous = ctx.previous
          /\ events = TailEvents(ctx)
          /\ tokens = TailTokens(ctx)
          /\ from = Len(TailEvents(ctx))
    /\ input = <<Trigger(construct)>>
    /\ pos = 1
    /\ line = 1
    /\ stack = <<>>
    /\ attempts = <<>>
    /\ pc = "offer"
    /\ sizeOpen = 0
    /\ size = 0
    /\ token = 0
    /\ interrupt = FALSE
    /\ disableCodeIndented = FALSE
    /\ lazy = {}
    /\ space = NoSpace

NextText ==
    \/ Feed
    \/ Offer
    \/ DollarText_start
    \/ DollarText_sequenceOpen
    \/ DollarText_between
    \/ DollarText_data
    \/ DollarText_sequenceClose
    \/ BackslashText_start
    \/ BackslashText_sequenceOpen
    \/ BackslashText_between
    \/ BackslashText_data
    \/ BackslashText_sequenceClose
    \/ AddResult

SpecText == InitText /\ [][NextText]_vars

InitFlow ==
    /\ construct \in FlowConstructs
    /\ options = [given |-> "undefined", singleDollarTextMath |-> "undefined"]
    /\ \E ctx \in FlowContexts :
          /\ previous = ctx.previous
          /\ events = TailEvents(ctx)
          /\ tokens = TailTokens(ctx)
          /\ from = Len(TailEvents(ctx))
    /\ input = <<Trigger(construct)>>
    /\ pos = 1
    /\ line = 1
    /\ stack = <<>>
    /\ attempts = <<>>
    /\ pc = "offer"
    /\ sizeOpen = 0
    /\ size = 0
    /\ token = 0
    /\ interrupt \in BOOLEAN
    /\ disableCodeIndented \in BOOLEAN
    /\ lazy = {}
    /\ space = NoSpace

NextFlow ==
    \/ Feed
    \/ Offer
    \/ FactorySpace_start
    \/ FactorySpace_prefix
    \/ MathFenced_start
    \/ MathFenced_sequenceOpen
    \/ MathFenced_metaBefore
    \/ MathFenced_meta
    \/ MathFenced_metaAfter
    \/ MathFenced_beforeNonLazyContinuation
    \/ MathFenced_contentStart
    \/ MathFenced_beforeContentChunk
    \/ MathFenced_contentChunk
    \/ MathFenced_after
    \/ ClosingFence_beforeSequenceClose
    \/ ClosingFence_sequenceClose
    \/ ClosingFence_afterSequenceClose
    \/ NonLazyContinuation_start
    \/ NonLazyContinuation_lineStart

SpecFlow == InitFlow /\ [][NextFlow]_vars

\* ---- the lines behind an opening fence: longer streams over the codes a
\* ---- closing fence is made of
\* the codes tokenizeClosingFence and factorySpace tell apart
FenceAlphabet(c) ==
    IF c = "mathFlowDollar" THEN {"dollarSign", "space", "lineFeed"}
    ELSE {"backslash", "rightSquareBracket", "space", "lineFeed"}

\* an opening fence line, without and with meta, and its line ending
OpeningLines(c) ==
    IF c = "mathFlowDollar"
    THEN {<<"dollarSign", "dollarSign", "lineFeed">>,
          <<"dollarSign", "dollarSign", "lowercaseA", "lineFeed">>}
    ELSE {<<"backslash", "leftSquareBracket", "lineFeed">>,
          <<"backslash", "leftSquareBracket", "lowercaseA", "lineFeed">>}

\* the host reads the next code of the stream; no line is lazy
FenceFeed ==
    /\ Scanning
    /\ pos = Len(input) + 1
    /\ input[Len(input)] /= "eof"
    /\ \E c \in (IF Len(input) < MaxFenceLen - 1 THEN FenceAlphabet(construct) ELSE {})
                \cup {"eof"} :
           input' = Append(input, c)
    /\ UNCHANGED <<setup, lazy, pos, previous, line, events, tokens, stack, pc, attempts,
                   sizeOpen, size, token, space>>

\* a block attempt at the start of a line, not interrupting, the stream starting
\* with an opening fence line
InitFence ==
    /\ construct \in FlowConstructs
    /\ options = [given |-> "undefined", singleDollarTextMath |-> "undefined"]
    /\ previous = "eof"
    /\ events = <<>>
    /\ tokens = <<>>
    /\ from = 0
    /\ input \in OpeningLines(construct)
    /\ pos = 1
    /\ line = 1
    /\ stack = <<>>
    /\ attempts = <<>>
    /\ pc = "offer"
    /\ sizeOpen = 0
    /\ size = 0
    /\ token = 0
    /\ interrupt = FALSE
    /\ disableCodeIndented \in BOOLEAN
    /\ lazy = {}
    /\ space = NoSpace

NextFence ==
    \/ FenceFeed
    \/ Offer
    \/ FactorySpace_start
    \/ FactorySpace_prefix
    \/ MathFenced_start
    \/ MathFenced_sequenceOpen
    \/ MathFenced_metaBefore
    \/ MathFenced_meta
    \/ MathFenced_metaAfter
    \/ MathFenced_beforeNonLazyContinuation
    \/ MathFenced_contentStart
    \/ MathFenced_beforeContentChunk
    \/ MathFenced_contentChunk
    \/ MathFenced_after
    \/ ClosingFence_beforeSequenceClose
    \/ ClosingFence_sequenceClose
    \/ ClosingFence_afterSequenceClose
    \/ NonLazyContinuation_start
    \/ NonLazyContinuation_lineStart

SpecFence == InitFence /\ [][NextFence]_vars

\* math(options): the extension registers the flow and the text constructs; the
\* host offers one of them
InitMath == InitText \/ InitFlow

NextMath == NextText \/ NextFlow

SpecMath == InitMath /\ [][NextMath]_vars

\* the attempts whose end is checked: every construct, offered at the start of
\* the input or (a block) behind a line prefix of one space, a single dollar
\* allowed or not
InitLive ==
    /\ InitMath
    /\ from = 0 \/ initialSize = 1
    /\ options.given = "undefined" \/ options.singleDollarTextMath = "false"

\* the host goes on calling the state function that waits and reading the
\* stream as long as a state function waits for a code
FairMath == InitLive /\ [][NextMath]_vars /\ WF_vars(NextMath)

\* ================================================================== properties
IsText == construct \in TextConstructs
IsFlow == construct \in FlowConstructs
Succeeded == pc \in {"ok", "resolved"}

\* number of `c` codes that end directly before offset p
RECURSIVE RunBefore(_, _)
RunBefore(c, p) == IF p > 1 /\ input[p - 1] = c THEN 1 + RunBefore(c, p - 1) ELSE 0

\* number of `c` codes that start at offset p
RECURSIVE RunFrom(_, _)
RunFrom(c, p) == IF p <= Len(input) /\ input[p] = c THEN 1 + RunFrom(c, p + 1) ELSE 0

TextOf(t) == SubSeq(input, t.start, t.end - 1)

\* the content of a span: the tokens entered between the two sequences
IsEnter(e) == e.kind = "enter"
ContentOf(evs) == SelectSeq(SubSeq(evs, from + 4, Len(evs) - 3), IsEnter)
ContentIds(evs) == {ContentOf(evs)[i].tok : i \in 1..Len(ContentOf(evs))}
\* [type, text] of each content token, in order
ContentView(evs, toks) ==
    [i \in 1..Len(ContentOf(evs)) |->
        [type |-> toks[ContentOf(evs)[i].tok].type,
         text |-> TextOf(toks[ContentOf(evs)[i].tok])]]

\* ------------------------------------------------------------------ C1
\* C1: dollar inline scanner. When a candidate closing run of `$` ends (a code
\* other than `$` arrives in sequenceClose), the span closes exactly when the
\* run is as long as the opening run; a shorter or longer run does not close:
\* its token becomes a data token that stays open, and the same code goes to
\* the data state with the cursor where it was. The counted size is the length
\* of the maximal run in the input, the opening size that of the opening run.
C1_RunEnds == construct = "mathTextDollar" /\ pc = "sequenceClose" /\ Fed /\ code /= "dollarSign"

C1_ClosesIffEqual ==
    [][C1_RunEnds =>
        /\ size = RunBefore("dollarSign", pos)
        /\ sizeOpen = RunFrom("dollarSign", 1)
        /\ pos - size > sizeOpen + 1
        /\ (RunBefore("dollarSign", pos) = RunFrom("dollarSign", 1)) <=> (pc' = "ok")
        /\ (RunBefore("dollarSign", pos) /= RunFrom("dollarSign", 1)) =>
              /\ pc' = "data"
              /\ pos' = pos
              /\ tokens'[token].type = "mathTextData"
              /\ tokens'[token].start = pos - size
              /\ stack'[Len(stack')] = token
              /\ events' = events]_vars

\* a run longer than the opening run has just been turned into data
C1_Witness ==
    /\ construct = "mathTextDollar"
    /\ pc = "data"
    /\ token /= 0
    /\ size > sizeOpen
    /\ pos = tokens[token].start + size
    /\ tokens[token].type = "mathTextData"

\* ------------------------------------------------------------------ C2
OptionFalse == options.given = "object" /\ options.singleDollarTextMath = "false"
OptionTrueOrAbsent ==
    \/ options.given \in {"null", "undefined"}
    \/ options.given = "object" /\ options.singleDollarTextMath \in {"true", "null", "undefined"}

DollarA == <<"dollarSign", "lowercaseA", "dollarSign">>
IsDollarA == Len(input) = 4 /\ SubSeq(input, 1, 3) = DollarA /\ input[4] /= "dollarSign"

\* C2: singleDollarTextMath. At the end of an opening run of length 1 the dollar
\* scanner goes on to the content when the option is true, null, undefined or
\* not given, and signals failure when it is false; at the end of a run of
\* length 2 or more it goes on whatever the option is. `$a$` ends as a span
\* whose only content is the data token "a" in the first case and fails in the
\* second.
C2_SingleDollarOption ==
    /\ [][construct = "mathTextDollar" /\ pc = "sequenceOpen" /\ Fed /\ code /= "dollarSign" =>
            /\ sizeOpen = RunFrom("dollarSign", 1)
            /\ (sizeOpen = 1 /\ OptionFalse) => pc' = "nok"
            /\ (sizeOpen = 1 /\ OptionTrueOrAbsent) => pc' = "between"
            /\ sizeOpen >= 2 => pc' = "between"]_vars
    /\ [](construct = "mathTextDollar" /\ IsDollarA /\ pc \in {"nok", "resolved"} =>
            IF OptionFalse
            THEN pc = "nok"
            ELSE /\ pc = "resolved"
                 /\ ContentView(events, tokens) =
                       <<[type |-> "mathTextData", text |-> <<"lowercaseA">>]>>)

\* `$a$` has ended as a span with an option that is not given
C2_Witness ==
    /\ construct = "mathTextDollar"
    /\ options.given = "undefined"
    /\ IsDollarA
    /\ pc = "resolved"
    /\ sizeOpen = 1

\* ------------------------------------------------------------------ C3
\* the codes consumed end with a complete closing delimiter that is not the opening one
ClosingComplete ==
    IF construct = "mathTextDollar"
    THEN /\ RunBefore("dollarSign", pos) = RunFrom("dollarSign", 1)
         /\ pos - RunBefore("dollarSign", pos) > RunFrom("dollarSign", 1) + 1
    ELSE /\ pos >= 5
         /\ input[pos - 2] = "backslash"
         /\ input[pos - 1] = Close(construct)

\* C3: inline scanner, both families. Success is signalled only when the codes
\* consumed end with a complete matching closing delimiter; the end of input is
\* never consumed, in the between state it makes the attempt fail, and an
\* attempt that has ended on an input whose closing delimiter is not complete
\* before the end of input has failed.
C3_Unterminated ==
    /\ IsText
    /\ pc \in {"ok", "nok", "resolved"}
    /\ input[Len(input)] = "eof"
    /\ ~(pos = Len(input) /\ ClosingComplete)

C3_EofFails ==
    /\ [](IsText /\ Succeeded => ClosingComplete)
    /\ [](C3_Unterminated => pc = "nok")
    /\ [][IsText /\ Scanning /\ Fed /\ code = "eof" =>
             /\ pos' = pos \/ pc' = "nok"
             /\ pc = "between" => pc' = "nok"
             /\ pc' = "ok" => ClosingComplete]_vars

\* an unterminated span has failed at the end of input, with content scanned
C3_Witness ==
    /\ IsText
    /\ pc = "nok"
    /\ input[Len(input)] = "eof"
    /\ Len(input) >= 4
    /\ sizeOpen >= 1

\* ------------------------------------------------------------------ C5
ParenA == <<"backslash", "leftParenthesis", "lowercaseA", "backslash">>

\* C5: backslash inline scanner. Success is signalled only right after the pair
\* backslash + the construct's own closing bracket; a backslash followed by any
\* other code does not close: the candidate token becomes a data token and the
\* same code goes to the data state. `\(a\)` succeeds, `\(a\]` and `\(a` at the
\* end of input fail.
C5_Diverges ==
    /\ construct \in {"mathTextParen", "mathTextBracket"}
    /\ pc = "sequenceClose"
    /\ Fed
    /\ size = 1
    /\ code /= (IF construct = "mathTextParen" THEN "rightParenthesis"
                ELSE "rightSquareBracket")

C5_ExactPair ==
    /\ [](construct \in {"mathTextParen", "mathTextBracket"} /\ Succeeded =>
            /\ input[pos - 2] = "backslash"
            /\ input[pos - 1] = Close(construct)
            /\ input[2] = Open(construct)
            /\ (construct = "mathTextParen") <=> (input[pos - 1] = "rightParenthesis"))
    /\ [][C5_Diverges =>
             /\ pc' = "data"
             /\ pos' = pos
             /\ tokens'[token].type = "mathTextData"
             /\ stack'[Len(stack')] = token]_vars
    /\ [](construct = "mathTextParen" /\ pc \in {"nok", "resolved"} =>
            /\ (Len(input) = 6 /\ SubSeq(input, 1, 5) = ParenA \o <<"rightParenthesis">>)
                  => pc = "resolved"
            /\ input = ParenA \o <<"rightSquareBracket", "eof">> => pc = "nok"
            /\ input = <<"backslash", "leftParenthesis", "lowercaseA", "eof">> => pc = "nok")

\* `\(a\]` has failed at the end of input
C5_Witness ==
    /\ construct = "mathTextParen"
    /\ input = ParenA \o <<"rightSquareBracket", "eof">>
    /\ pc = "nok"

\* ------------------------------------------------------------------ C6
\* the type of the last event before the attempt
TailType == IF from = 0 THEN "none" ELSE tokens[events[from].tok].type

\* C6: when the host offers an inline construct, the attempt is refused exactly
\* when the code before the trigger is the construct's own trigger character
\* (`$` for the dollar construct, backslash for the backslash constructs) and
\* the last event of the history is not a character escape; otherwise it starts.
C6_PreviousPredicate ==
    [][IsText /\ pc = "offer" =>
          IF previous = (IF construct = "mathTextDollar" THEN "dollarSign" ELSE "backslash")
             /\ TailType /= "characterEscape"
          THEN pc' = "skipped"
          ELSE pc' = "start"]_vars

\* after an escaped `$` (as in `\$$a$`) the dollar construct has started
C6_Witness ==
    /\ construct = "mathTextDollar"
    /\ previous = "dollarSign"
    /\ TailType = "characterEscape"
    /\ pc = "start"

\* ------------------------------------------------------------------ C4
\* the opening fence has been closed: metaAfter has run
FenceConfirmed ==
    \E i \in (from + 1)..Len(events) :
        events[i].kind = "exit" /\ tokens[events[i].tok].type = "mathFlowFence"

\* where the first line of the input ends
RECURSIVE LineEnd(_)
LineEnd(p) ==
    IF p > Len(input) \/ input[p] \in {"lineFeed", "eof"} THEN p ELSE LineEnd(p + 1)

\* the first line is an opening fence
OpeningValid ==
    IF construct = "mathFlowDollar"
    THEN /\ RunFrom("dollarSign", 1) >= 2
         /\ \A i \in (RunFrom("dollarSign", 1) + 1)..(LineEnd(1) - 1) : input[i] /= "dollarSign"
    ELSE Len(input) >= 2 /\ input[2] = "leftSquareBracket"

\* C4: block scanner, both families. Once the opening fence is confirmed the
\* block attempt never signals failure and the fence stays confirmed; a failed
\* attempt never got past its first line; and an attempt that has ended at the
\* end of input has succeeded exactly when its first line is an opening fence,
\* whether or not a closing fence was found.
C4_CommitsAfterFence ==
    /\ [][IsFlow /\ FenceConfirmed => pc' /= "nok" /\ FenceConfirmed']_vars
    /\ [](IsFlow /\ pc = "nok" =>
            \A i \in 1..(Len(input) - 1) : input[i] /= "lineFeed")
    /\ [](IsFlow /\ pc \in {"ok", "nok"} /\ input[Len(input)] = "eof" =>
            ((pc = "ok") <=> OpeningValid))

FenceTokens ==
    {i \in 1..Len(tokens) : tokens[i].type = "mathFlowFence"}

\* a block with content and no closing fence has ended with success at the end of input
C4_Witness ==
    /\ IsFlow
    /\ ~interrupt
    /\ pc = "ok"
    /\ input[Len(input)] = "eof"
    /\ Cardinality(FenceTokens) = 1
    /\ \E i \in 1..Len(tokens) : tokens[i].type = "mathFlowValue"

\* ------------------------------------------------------------------ C7
Resolving == IsText /\ pc = "ok"

TypeOf(toks, evs, i) == toks[ContentOf(evs)[i].tok].type

\* first and last content token are space or line ending, with data between
PaddingCase(evs, toks) ==
    LET n == Len(ContentOf(evs))
    IN  /\ n >= 1
        /\ TypeOf(toks, evs, 1) \in {"space", "lineEnding"}
        /\ TypeOf(toks, evs, n) \in {"space", "lineEnding"}
        /\ \E i \in 2..(n - 1) : TypeOf(toks, evs, i) = "mathTextData"

Padded(toks) == {i \in 1..Len(toks) : toks[i].type = "mathTextPadding"}

SameExtent(id) == tokens'[id].start = tokens[id].start /\ tokens'[id].end = tokens[id].end

SpaceA == <<"space", "lowercaseA", "space", "dollarSign">>

\* C7: when the normalizer runs, tokens become padding exactly when the first
\* and the last content token are both space or line-ending tokens and a data
\* token lies strictly between them; then these two tokens and no others are
\* padding, they keep their extent and stay the first and last content token.
\* `$ a $` gives padding, data "a", padding; `$  a $` gives padding, data " a",
\* padding.
C7_PaddingStep ==
    [][Resolving =>
        LET n == Len(ContentOf(events))
            m == Len(ContentOf(events'))
        IN  /\ Padded(tokens) = {}
            /\ IF PaddingCase(events, tokens)
               THEN /\ Padded(tokens') = {ContentOf(events)[1].tok, ContentOf(events)[n].tok}
                    /\ ContentOf(events')[1].tok = ContentOf(events)[1].tok
                    /\ ContentOf(events')[m].tok = ContentOf(events)[n].tok
                    /\ \A id \in Padded(tokens') : SameExtent(id)
               ELSE Padded(tokens') = {}
            /\ (Len(input) = 6 /\ SubSeq(input, 1, 5) = <<"dollarSign">> \o SpaceA) =>
                  ContentView(events', tokens') =
                     <<[type |-> "mathTextPadding", text |-> <<"space">>],
                       [type |-> "mathTextData", text |-> <<"lowercaseA">>],
                       [type |-> "mathTextPadding", text |-> <<"space">>]>>
            /\ (Len(input) = 7 /\ SubSeq(input, 1, 6) = <<"dollarSign", "space">> \o SpaceA) =>
                  ContentView(events', tokens') =
                     <<[type |-> "mathTextPadding", text |-> <<"space">>],
                       [type |-> "mathTextData", text |-> <<"space", "lowercaseA">>],
                       [type |-> "mathTextPadding", text |-> <<"space">>]>>]_vars

\* `$  a $` has been normalized: one layer of padding at each end
C7_Witness ==
    /\ construct = "mathTextDollar"
    /\ pc = "resolved"
    /\ Len(input) = 7
    /\ SubSeq(input, 1, 6) = <<"dollarSign", "space">> \o SpaceA
    /\ Cardinality(Padded(tokens)) = 2

\* ------------------------------------------------------------------ C8
Occurrences(evs, id) == Cardinality({i \in 1..Len(evs) : evs[i].tok = id})

\* C8: when the normalizer runs, every line-ending token of the content stays
\* in the event list with its enter and its exit and its extent, labelled line
\* ending or padding, and no data token of the result covers a line ending.
\* `$a\nb$` gives data "a", line ending, data "b"; `$a b$` gives the one data
\* token "a b".
C8_LineEndingsKept ==
    [][Resolving =>
        /\ \A id \in ContentIds(events) :
              tokens[id].type = "lineEnding" =>
                 /\ id \in ContentIds(events')
                 /\ Occurrences(events', id) = 2
                 /\ SameExtent(id)
                 /\ tokens'[id].type \in {"lineEnding", "mathTextPadding"}
        /\ \A id \in ContentIds(events') :
              tokens'[id].type = "mathTextData" =>
                 \A i \in tokens'[id].start..(tokens'[id].end - 1) : input[i] /= "lineFeed"
        /\ (Len(input) = 6 /\ SubSeq(input, 1, 5) =
               <<"dollarSign", "lowercaseA", "lineFeed", "lowercaseA", "dollarSign">>) =>
              ContentView(events', tokens') =
                 <<[type |-> "mathTextData", text |-> <<"lowercaseA">>],
                   [type |-> "lineEnding", text |-> <<"lineFeed">>],
                   [type |-> "mathTextData", text |-> <<"lowercaseA">>]>>
        /\ (Len(input) = 6 /\ SubSeq(input, 1, 5) =
               <<"dollarSign", "lowercaseA", "space", "lowercaseA", "dollarSign">>) =>
              ContentView(events', tokens') =
                 <<[type |-> "mathTextData",
                    text |-> <<"lowercaseA", "space", "lowercaseA">>]>>]_vars

\* a span with a line ending between two merged runs has been normalized
C8_Witness ==
    /\ IsText
    /\ pc = "resolved"
    /\ \E i \in 2..(Len(ContentOf(events)) - 1) :
          /\ TypeOf(tokens, events, i) = "lineEnding"
          /\ TypeOf(tokens, events, i - 1) = "mathTextData"
          /\ TypeOf(tokens, events, i + 1) = "mathTextData"
          /\ Len(TextOf(tokens[ContentOf(events)[i + 1].tok])) >= 2

\* ------------------------------------------------------------------ C9
\* the content tokens the merge step works on: all but the two padded ones
MergeRange(evs, toks) ==
    IF PaddingCase(evs, toks) THEN 2..(Len(ContentOf(evs)) - 1) ELSE 1..Len(ContentOf(evs))

\* i..j is a maximal sequence without line ending among the tokens of the range R
IsRun(evs, toks, R, i, j) ==
    /\ i \in R /\ j \in R /\ i <= j
    /\ \A k \in i..j : TypeOf(toks, evs, k) /= "lineEnding"
    /\ (i - 1) \in R => TypeOf(toks, evs, i - 1) = "lineEnding"
    /\ (j + 1) \in R => TypeOf(toks, evs, j + 1) = "lineEnding"

\* C9 as claimed: when the normalizer runs, the tokens of a maximal sequence
\* without line ending that consists of space tokens alone are neither
\* relabelled as data nor removed.
C9_SpacesOnlyKept ==
    [][Resolving =>
        \A i, j \in 1..Len(ContentOf(events)) :
           (/\ IsRun(events, tokens, 1..Len(ContentOf(events)), i, j)
            /\ \A k \in i..j : TypeOf(tokens, events, k) = "space") =>
              \A k \in i..j :
                 /\ ContentOf(events)[k].tok \in ContentIds(events')
                 /\ tokens'[ContentOf(events)[k].tok].type /= "mathTextData"]_vars

\* C9 amended: when the normalizer runs, every maximal sequence without line
\* ending among the content tokens left after the padding step becomes exactly
\* one data token, from the start of its first token to the end of its last,
\* also when it consists of space tokens alone; no space token remains, and the
\* content of `$ $` becomes the data token " ".
C9_EveryRunBecomesData ==
    [][Resolving =>
        /\ \A i, j \in 1..Len(ContentOf(events)) :
              IsRun(events, tokens, MergeRange(events, tokens), i, j) =>
                 LET first == ContentOf(events)[i].tok
                     last  == ContentOf(events)[j].tok
                 IN  /\ first \in ContentIds(events')
                     /\ tokens'[first].type = "mathTextData"
                     /\ tokens'[first].start = tokens[first].start
                     /\ tokens'[first].end = tokens[last].end
                     /\ \A k \in (i + 1)..j :
                           ContentOf(events)[k].tok \notin ContentIds(events')
        /\ \A id \in ContentIds(events') : tokens'[id].type /= "space"
        /\ (Len(input) = 4 /\ SubSeq(input, 1, 3) = <<"dollarSign", "space", "dollarSign">>) =>
              ContentView(events', tokens') =
                 <<[type |-> "mathTextData", text |-> <<"space">>]>>]_vars

\* `$ $` has been normalized
C9_Witness ==
    /\ construct = "mathTextDollar"
    /\ pc = "resolved"
    /\ SubSeq(input, 1, 3) = <<"dollarSign", "space", "dollarSign">>
    /\ ContentView(events, tokens) = <<[type |-> "mathTextData", text |-> <<"space">>]>>

\* ------------------------------------------------------------------ C10
\* what an event list says: kind, label and extent of each event
View(st) ==
    [i \in 1..Len(st.events) |->
        [kind |-> st.events[i].kind,
         type |-> st.tokens[st.events[i].tok].type,
         start |-> st.tokens[st.events[i].tok].start,
         end |-> st.tokens[st.events[i].tok].end]]

\* C10 as claimed: the normalizer applied to its own output changes nothing.
C10_Idempotent ==
    IsText /\ pc = "resolved" => View(resolveMathText(Attempt)) = View(Attempt)

\* C10 amended: the normalizer applied to its own output changes nothing when
\* that output holds no padding token and is no padding case itself (first and
\* last content token line endings or spaces, with data between them).
C10_IdempotentWithoutPadding ==
    (IsText /\ pc = "resolved" /\ Padded(tokens) = {} /\ ~PaddingCase(events, tokens)) =>
        View(resolveMathText(Attempt)) = View(Attempt)

\* a span whose content was merged into one data token, without padding
C10_Witness ==
    /\ IsText
    /\ pc = "resolved"
    /\ Padded(tokens) = {}
    /\ ~PaddingCase(events, tokens)
    /\ \E i \in 1..Len(ContentOf(events)) :
          /\ TypeOf(tokens, events, i) = "mathTextData"
          /\ Len(TextOf(tokens[ContentOf(events)[i].tok])) >= 3

\* ------------------------------------------------------------------ C11
\* the closing-fence sub-attempt is the innermost attempt
InClosing == attempts /= <<>> /\ Top.nok = "contentStart"

\* the leading spaces the closing-fence sub-attempt may skip on the line at p
Indent(p) ==
    IF disableCodeIndented \/ RunFrom("space", p) < tabSize
    THEN RunFrom("space", p) ELSE tabSize - 1

\* length of the closing run that starts at offset q, 0 if there is none
ClosingRun(q) ==
    IF construct = "mathFlowDollar"
    THEN (IF RunFrom("dollarSign", q) >= RunFrom("dollarSign", 1)
          THEN RunFrom("dollarSign", q) ELSE 0)
    ELSE (IF /\ q + 1 <= Len(input)
             /\ input[q] = "backslash"
             /\ input[q + 1] = "rightSquareBracket"
          THEN 2 ELSE 0)

\* the line that starts at offset p reads: indentation, closing run, spaces, end
ClosingLine(p) ==
    LET q == p + Indent(p)
        s == q + ClosingRun(q) + RunFrom("space", q + ClosingRun(q))
    IN  /\ ClosingRun(q) > 0
        /\ s <= Len(input)
        /\ input[s] \in {"lineFeed", "eof"}

\* C11: block scanner, both families. When the closing-fence sub-attempt ends,
\* it has succeeded (the block goes to `after`) exactly when the line it started
\* on holds, behind the permitted indentation, a closing run (dollar: at least
\* as many `$` as the opening run; backslash: exactly `\]`), then only spaces,
\* then a line ending or the end of input. Otherwise it has failed: the cursor
\* and the events are back where the sub-attempt started and the block goes on
\* with contentStart.
C11_ClosingFenceIff ==
    [][IsFlow /\ InClosing /\ attempts' /= attempts =>
         /\ pc' \in {"after", "contentStart"}
         /\ (pc' = "after") <=> ClosingLine(Top.pos)
         /\ pc' = "after" => input[pos] \in {"lineFeed", "eof"}
         /\ pc' = "contentStart" =>
              /\ pos' = Top.pos
              /\ Len(events') = Top.events
              /\ stack' = Top.stack]_vars

\* a block opened by `$$` has been closed by the longer run `$$$`
C11_Witness ==
    /\ construct = "mathFlowDollar"
    /\ pc = "ok"
    /\ RunFrom("dollarSign", 1) = 2
    /\ input[3] = "lineFeed"
    /\ RunFrom("dollarSign", 4) = 3
    /\ Cardinality(FenceTokens) = 2

\* ------------------------------------------------------------------ C12
\* length of the opening run of the first line
OpeningRun ==
    IF construct = "mathFlowDollar" THEN RunFrom("dollarSign", 1)
    ELSE IF Len(input) >= 2 /\ input[2] = "leftSquareBracket" THEN 2 ELSE 1

\* where the meta of the first line starts: behind the run and the spaces after it
MetaStart == OpeningRun + RunFrom("space", OpeningRun + 1) + 1

DollarInMeta == \E i \in MetaStart..(LineEnd(1) - 1) : input[i] = "dollarSign"

TokensOf(type) == {i \in (IF from = 0 THEN 1 ELSE 2)..Len(tokens) : tokens[i].type = type}

\* the meta of the first line is one fence-meta token holding one string chunk,
\* or there is no such token when nothing follows the run
MetaEmitted ==
    IF MetaStart < LineEnd(1)
    THEN /\ Cardinality(TokensOf("mathFlowFenceMeta")) = 1
         /\ Cardinality(TokensOf("chunkString")) = 1
         /\ \A i \in TokensOf("mathFlowFenceMeta") \cup TokensOf("chunkString") :
              tokens[i].start = MetaStart /\ tokens[i].end = LineEnd(1)
    ELSE TokensOf("mathFlowFenceMeta") \cup TokensOf("chunkString") = {}

\* C12: block scanner, dollar family. An attempt fails only on an opening run
\* shorter than 2 or on a `$` in the meta of the opening line, and then nothing
\* of it is left (cursor and events are back at the start). As soon as a `$`
\* has been read in the meta the fence is never confirmed and the attempt
\* cannot succeed. A confirmed fence has a run of at least 2 and a meta
\* without `$`, emitted as exactly one fence-meta token that spans from the
\* first non-space code behind the run to the end of the line (no token when
\* the meta is empty).
C12_DollarMeta ==
    construct = "mathFlowDollar" =>
        /\ pc = "nok" => /\ OpeningRun < 2 \/ DollarInMeta
                         /\ pos = 1
                         /\ Len(events) = from
                         /\ stack = <<>>
        /\ OpeningRun >= 2 /\ DollarInMeta =>
              pc \in {"spacePrefix", "metaBefore", "meta", "nok"} /\ ~FenceConfirmed
        /\ FenceConfirmed => OpeningRun >= 2 /\ ~DollarInMeta /\ MetaEmitted

\* `$$a$`: the attempt has failed on the `$` in the meta
C12_Witness ==
    /\ construct = "mathFlowDollar"
    /\ pc = "nok"
    /\ OpeningRun = 2
    /\ input[3] = "lowercaseA"
    /\ DollarInMeta

\* ------------------------------------------------------------------ C13
\* C13: block scanner, backslash family. No fence-meta token is ever emitted
\* for the text that follows `\[` on the opening line.
\* metaBefore and meta run for both families (only the `$` test in meta asks
\* for the dollar family), so `\[a` followed by a line ending emits the
\* fence-meta token "a": the statement does not hold of the code.
C13_NoBackslashMeta ==
    construct = "mathFlowBackslash" => TokensOf("mathFlowFenceMeta") = {}

\* ------------------------------------------------------------------ C14
\* the state functions behind metaAfter: continuation, closing fence, content
BehindFence ==
    {"nonLazyStart", "lineStart", "beforeNonLazyContinuation", "contentStart",
     "beforeContentChunk", "contentChunk", "beforeSequenceClose", "sequenceClose",
     "afterSequenceClose", "after"}

\* C14: block scanner with self.interrupt set. The attempt never gets behind
\* metaAfter: no sub-attempt (continuation or closing fence) is ever started,
\* no line ending, content value or second fence is emitted and the cursor
\* never passes the end of the opening line. Success is signalled by metaAfter
\* itself, on every valid opening line and only there, with the cursor on the
\* line ending (or end of input) that ends the opening line.
C14_InterruptProbe ==
    /\ [](IsFlow /\ interrupt =>
            /\ Len(attempts) <= 1
            /\ pc \notin BehindFence
            /\ TokensOf("lineEnding") = {}
            /\ TokensOf("mathFlowValue") = {}
            /\ Cardinality(FenceTokens) <= 1
            /\ pos <= LineEnd(1))
    /\ [](IsFlow /\ interrupt /\ pc = "ok" =>
            /\ OpeningValid
            /\ attempts = <<>>
            /\ pos = LineEnd(1)
            /\ pos <= Len(input)
            /\ previous /= "lineFeed")
    /\ [][IsFlow /\ interrupt /\ pc' = "ok" => pc = "metaAfter"]_vars
    /\ [][IsFlow /\ interrupt /\ pc = "metaAfter" /\ Fed => pc' = "ok"]_vars

\* the probe has succeeded on `$$a` with the cursor on the line ending that
\* follows it: the line ending is not consumed
C14_Witness ==
    /\ construct = "mathFlowDollar"
    /\ interrupt
    /\ pc = "ok"
    /\ input = <<"dollarSign", "dollarSign", "lowercaseA", "lineFeed">>
    /\ pos = 4

\* ------------------------------------------------------------------ C15
\* the line the code at offset p is on
LineOf(p) == 1 + Cardinality({i \in 1..(p - 1) : input[i] = "lineFeed"})

\* the continuation check stands at the start of a lazy line
AtLazyLine == IsFlow /\ pc = "lineStart" /\ Fed /\ line \in lazy

\* C15: block scanner, both families. No code of a lazy line is ever consumed
\* and no token reaches into a lazy line. When the continuation check finds
\* the next line lazy it fails: the host takes the line ending back (cursor,
\* line number and the two line-ending events) and the block goes to `after`,
\* which ends it with success in the next step. A block that has ended in
\* front of a lazy line 2 holds the opening fence only: no line ending, no
\* content value and no closing fence.
C15_LazyNotConsumed ==
    /\ [](IsFlow =>
            /\ \A p \in 1..(pos - 1) : LineOf(p) \notin lazy
            /\ \A i \in TokensOf("lineEnding") \cup TokensOf("mathFlowValue")
                        \cup TokensOf("linePrefix") \cup FenceTokens :
                 tokens[i].end /= 0 => LineOf(tokens[i].end - 1) \notin lazy)
    /\ [][AtLazyLine =>
            /\ pc' = "after"
            /\ pos' = pos - 1
            /\ input[pos'] = "lineFeed"
            /\ line' = line - 1
            /\ events' = SubSeq(events, 1, Len(events) - 2)
            /\ TokensOf("lineEnding")' = TokensOf("lineEnding") \ {Len(tokens)}
            /\ Len(attempts') = 1]_vars
    /\ [][IsFlow /\ pc = "after" /\ Fed => pc' = "ok" /\ pos' = pos]_vars
    /\ [](IsFlow /\ pc = "ok" /\ 2 \in lazy =>
            /\ pos = LineEnd(1)
            /\ TokensOf("lineEnding") = {}
            /\ TokensOf("mathFlowValue") = {}
            /\ Cardinality(FenceTokens) = 1)

\* `$$`, the content line `a`, then a lazy line: the block has ended with the
\* cursor on the line ending behind `a`
C15_Witness ==
    /\ construct = "mathFlowDollar"
    /\ pc = "ok"
    /\ Len(input) = 6
    /\ SubSeq(input, 1, 5) = <<"dollarSign", "dollarSign", "lineFeed", "lowercaseA", "lineFeed">>
    /\ 3 \in lazy
    /\ pos = 5
    /\ Cardinality(TokensOf("mathFlowValue")) = 1
    /\ Cardinality(TokensOf("lineEnding")) = 1

\* ------------------------------------------------------------------ C16
\* the events of the attempt
Own == SubSeq(events, from + 1, Len(events))

Broken == <<0>>

\* the tokens left open after the events evs[i..], read with the tokens `open`
\* open at i; Broken when an exit does not close the innermost open token or a
\* token is entered twice
RECURSIVE OpenAfter(_, _, _)
OpenAfter(evs, i, open) ==
    IF i > Len(evs) THEN open
    ELSE IF evs[i].kind = "enter"
    THEN (IF \E k \in 1..Len(open) : open[k] = evs[i].tok
          THEN Broken
          ELSE OpenAfter(evs, i + 1, Append(open, evs[i].tok)))
    ELSE (IF open /= <<>> /\ open[Len(open)] = evs[i].tok
          THEN OpenAfter(evs, i + 1, SubSeq(open, 1, Len(open) - 1))
          ELSE Broken)

\* every exit was asked for under the label its token carries
LabelsMatch ==
    \A i \in 1..Len(Own) :
        Own[i].kind = "exit" => tokens[Own[i].tok].exit = tokens[Own[i].tok].type

\* C16: inline and block scanner, both families. Whenever an attempt has
\* signalled success its events are well nested (every exit closes the
\* innermost open token, under that token's label) and no token is left open,
\* with self.interrupt set or not.
\* With self.interrupt set metaAfter signals success before `after` has exited
\* the outer mathFlow token, so that token is left open: the statement does
\* not hold of the code.
C16_WellNested ==
    pc = "ok" => OpenAfter(Own, 1, <<>>) = <<>> /\ stack = <<>> /\ LabelsMatch

\* C16, as the code has it: at every moment the events of the attempt are a
\* well-nested prefix whose open tokens are exactly the host's token stack. On
\* success every exit carries its token's label and nothing is left open,
\* except when self.interrupt is set: then exactly the outer mathFlow token,
\* the first token of the attempt, is still open. The normalizer keeps the
\* inline events well nested.
C16_WellNestedUnlessProbe ==
    /\ OpenAfter(Own, 1, <<>>) = stack
    /\ pc = "ok" => LabelsMatch
    /\ Succeeded =>
         IF IsFlow /\ interrupt
         THEN /\ stack = <<Own[1].tok>>
              /\ tokens[Own[1].tok].type = "mathFlow"
              /\ tokens[Own[1].tok].exit = "none"
         ELSE stack = <<>>

\* `$a$$b$`-like input: a closing candidate of another length was relabelled as
\* data and closed under that label, and the span has succeeded
C16_Witness ==
    /\ construct = "mathTextDollar"
    /\ pc = "ok"
    /\ token /= 0
    /\ \E i \in 1..Len(tokens) :
         /\ i /= token
         /\ tokens[i].exit = "mathTextData"
         /\ \E p \in tokens[i].start..(tokens[i].end - 1) : input[p] = "dollarSign"
    /\ stack = <<>>

\* ------------------------------------------------------------------ C17
\* the line at offset p reads: spaces, a closing run, spaces, end of line
FenceBehindSpaces(p) ==
    LET q == p + RunFrom("space", p)
        s == q + ClosingRun(q) + RunFrom("space", q + ClosingRun(q))
    IN  /\ ClosingRun(q) > 0
        /\ s <= Len(input)
        /\ input[s] \in {"lineFeed", "eof"}

\* offsets at which a line behind the opening line starts
LineStarts == {p \in 2..Len(input) : input[p - 1] = "lineFeed"}

ValueAt(p) ==
    \E i \in TokensOf("mathFlowValue") :
        tokens[i].start = p /\ tokens[i].end = LineEnd(p)

\* C17: closing fence of a block. With indented code enabled
\* (disableCodeIndented false) the closing-fence sub-attempt succeeds exactly
\* on a line that reads spaces, closing run, spaces, end of line with fewer than
\* tabSize (4) leading spaces; with 4 or more leading spaces it fails, and when
\* the block has ended every such line is one content value from the start of
\* the line to its end. With indented code disabled the number of leading
\* spaces does not matter.
C17_ClosingIndent ==
    /\ [][IsFlow /\ InClosing /\ attempts' /= attempts =>
            ((pc' = "after") <=>
                /\ FenceBehindSpaces(Top.pos)
                /\ disableCodeIndented \/ RunFrom("space", Top.pos) < tabSize)]_vars
    /\ [](IsFlow /\ pc = "ok" /\ ~disableCodeIndented /\ initialSize = 0 =>
            \A p \in LineStarts : RunFrom("space", p) >= tabSize => ValueAt(p))

\* `$$`, then `$$` behind four spaces, then the end of input: with indented code
\* enabled the block has ended without a closing fence and the line is content
C17_Witness ==
    /\ construct = "mathFlowDollar"
    /\ ~disableCodeIndented
    /\ pc = "ok"
    /\ input = <<"dollarSign", "dollarSign", "lineFeed", "space", "space", "space",
                 "space", "dollarSign", "dollarSign", "eof">>
    /\ Cardinality(FenceTokens) = 1
    /\ ValueAt(4)

\* ------------------------------------------------------------------ C18
\* the lines the block has taken as content: behind the opening line, reached
\* by the cursor, and not a closing fence
ContentLines == {p \in LineStarts : p <= pos /\ ~ClosingLine(p)}

\* the leading spaces of the line at p that become its line prefix
PrefixWidth(p) ==
    IF RunFrom("space", p) < initialSize THEN RunFrom("space", p) ELSE initialSize

\* the tokens that start on the line at p
OnLine(p) == {i \in 1..Len(tokens) : p <= tokens[i].start /\ tokens[i].start <= LineEnd(p)}

\* C18: block scanner, both families, when the block has ended (not as a
\* probe). Every line on which the closing-fence sub-attempt failed left
\* nothing of that sub-attempt behind (no fence, fence-sequence or whitespace
\* token starts on the line). Of its leading spaces at most initialSize, the
\* width of the line prefix in front of the opening fence, are one line-prefix
\* token; the rest of the line up to its line ending or the end of input is
\* exactly one content-value token, trigger characters included; when nothing
\* is left of the line there is no content-value token. Every content-value
\* token is such a rest of a content line.
C18_ContentLines ==
    IsFlow /\ pc = "ok" /\ ~interrupt =>
        /\ \A p \in ContentLines :
             LET w == PrefixWidth(p)
                 e == LineEnd(p)
             IN  /\ e <= Len(input)
                 /\ \A i \in OnLine(p) :
                      tokens[i].type \in {"linePrefix", "mathFlowValue", "lineEnding"}
                 /\ {i \in OnLine(p) : tokens[i].type = "linePrefix"} =
                      {i \in OnLine(p) : w > 0 /\ tokens[i].start = p /\ tokens[i].end = p + w}
                 /\ {i \in OnLine(p) : tokens[i].type = "mathFlowValue"} =
                      {i \in OnLine(p) : /\ p + w < e 
                                         /\ tokens[i].start = p + w
                                         /\ tokens[i].end = e}
                 /\ Cardinality({i \in OnLine(p) : tokens[i].type = "mathFlowValue"}) =
                      IF p + w < e THEN 1 ELSE 0
                 /\ Cardinality({i \in OnLine(p) : tokens[i].type = "linePrefix"}) =
                      IF w > 0 THEN 1 ELSE 0
        /\ \A i \in TokensOf("mathFlowValue") :
             \E p \in ContentLines : tokens[i].start = p + PrefixWidth(p)

\* an opening fence behind one space; the next line holds two spaces and a `$`:
\* the closing-fence sub-attempt read all three and failed, one space is the
\* line prefix and the value is the other space and the `$`
C18_Witness ==
    /\ construct = "mathFlowDollar"
    /\ pc = "ok"
    /\ ~interrupt
    /\ initialSize = 1
    /\ input = <<"dollarSign", "dollarSign", "lineFeed", "space", "space",
                 "dollarSign", "eof">>
    /\ \E i \in TokensOf("mathFlowValue") : tokens[i].start = 5 /\ tokens[i].end = 7
    /\ \E i \in TokensOf("linePrefix") : tokens[i].start = 4 /\ tokens[i].end = 5

\* ------------------------------------------------------------------ C19
\* the opening delimiter has been read and accepted
PastOpening == pc \notin {"offer", "skipped", "start", "sequenceOpen", "nok"}

\* length of the opening delimiter as it stands in the input
OpeningLength ==
    IF Trigger(construct) = "dollarSign" THEN RunFrom("dollarSign", 1) ELSE 2

\* C19: inline and block scanner, both families. sizeOpen changes only in a
\* step of sequenceOpen that consumes a code of the opening delimiter, by one.
\* From the moment the opening delimiter is accepted sizeOpen is the length of
\* that delimiter in the input and stays so through between, data, meta,
\* content and every closing candidate, also a failed and rewound one; so each
\* closing candidate is compared with the same value.
C19_SizeOpenFrozen ==
    /\ [][sizeOpen' /= sizeOpen =>
            /\ pc = "sequenceOpen"
            /\ pc' = "sequenceOpen"
            /\ pos' = pos + 1
            /\ sizeOpen' = sizeOpen + 1]_vars
    /\ [][PastOpening => sizeOpen' = sizeOpen]_vars
    /\ [](PastOpening => sizeOpen = OpeningLength)

\* a block opened by `$$$`: the closing candidate `$$` has failed and was
\* rewound, the line is read as content, sizeOpen is still 3
C19_Witness ==
    /\ construct = "mathFlowDollar"
    /\ pc = "contentChunk"
    /\ sizeOpen = 3
    /\ size = 2
    /\ Len(input) >= 6
    /\ SubSeq(input, 1, 6) = <<"dollarSign", "dollarSign", "dollarSign", "lineFeed",
                               "dollarSign", "dollarSign">>

\* ------------------------------------------------------------------ C20
Signalled == pc \in {"ok", "nok", "resolved"}

\* C20: inline and block scanner, both families. Every attempt the host starts
\* signals ok or nok: no behaviour goes on for ever or stops in a state
\* function. A new turn of the block's content loop (the continuation check
\* starts) finds the cursor behind every line ending taken so far, so each turn
\* has consumed at least one code, and on a code that is a line ending or the
\* end of input.
C20_Terminates ==
    /\ (pc = "start") ~> Signalled
    /\ [][pc' = "nonLazyStart" /\ pc /= "nonLazyStart" =>
            /\ \A i \in TokensOf("lineEnding") : tokens[i].end <= pos'
            /\ Fed /\ pos' = pos /\ input[pos] \in {"lineFeed", "eof"}]_vars


\* `$$`, the content line `a`, a line ending and the end of input: the content
\* loop has turned twice and the block has signalled ok
C20_Witness ==
    /\ construct = "mathFlowDollar"
    /\ pc = "ok"
    /\ input = <<"dollarSign", "dollarSign", "lineFeed", "lowercaseA", "lineFeed", "eof">>
    /\ Cardinality(TokensOf("lineEnding")) = 2
    /\ Cardinality(TokensOf("mathFlowValue")) = 1
    /\ attempts = <<>>

\* ------------------------------------------------------------------ C21
\* label and extent of the token of event i
Shown(evs, toks, i) ==
    [kind |-> evs[i].kind, tok |-> evs[i].tok, type |-> toks[evs[i].tok].type,
     start |-> toks[evs[i].tok].start, end |-> toks[evs[i].tok].end]

\* the content tokens lie end to start from the end of the opening sequence to
\* the start of the closing sequence
Covers(evs, toks) ==
    LET c == ContentOf(evs)
        n == Len(c)
        a == toks[evs[from + 2].tok].end
        b == toks[evs[Len(evs) - 2].tok].start
    IN  IF n = 0 THEN a = b
        ELSE /\ toks[c[1].tok].start = a
             /\ toks[c[n].tok].end = b
             /\ \A i \in 1..(n - 1) : toks[c[i].tok].end = toks[c[i + 1].tok].start
             /\ \A i \in 1..n : toks[c[i].tok].start < toks[c[i].tok].end

\* C21: when the normalizer runs on the events of a successful inline attempt,
\* (a) the events of the outer span, of the opening and of the closing
\* sequence are the first three and last three events before and after, with
\* the same tokens, labels and extents, and the events in front of the attempt
\* are untouched; (b) before and after, the content tokens lie end to start
\* and cover the codes between the two sequences, none left out and none
\* covered twice; (c) in the result each enter of a content token is followed
\* at once by the exit of the same token; (d) no content token is labelled
\* space; (e) between any two data tokens of the result lies a line-ending
\* token.
C21_Conservation ==
    [][Resolving =>
        LET c == ContentOf(events')
            n == Len(c)
        IN  /\ Len(events) - Len(events') \in 0..(Len(events) - from - 6)
            /\ SubSeq(events', 1, from) = SubSeq(events, 1, from)
            /\ \A k \in 0..2 :
                 /\ Shown(events', tokens', from + 1 + k) = Shown(events, tokens, from + 1 + k)
                 /\ Shown(events', tokens', Len(events') - k) =
                       Shown(events, tokens, Len(events) - k)
            /\ Covers(events, tokens)
            /\ Covers(events', tokens')
            /\ Len(events') = from + 6 + 2 * n
            /\ \A i \in 1..n :
                 /\ events'[from + 2 + 2 * i] = [kind |-> "enter", tok |-> c[i].tok]
                 /\ events'[from + 3 + 2 * i] = [kind |-> "exit", tok |-> c[i].tok]
            /\ \A i \in 1..n : TypeOf(tokens', events', i) /= "space"
            /\ \A i, j \in 1..n :
                 (i < j /\ TypeOf(tokens', events', i) = "mathTextData"
                        /\ TypeOf(tokens', events', j) = "mathTextData") =>
                    \E k \in (i + 1)..(j - 1) : TypeOf(tokens', events', k) = "lineEnding"]_vars

\* `$ a b\n$`-like content has been normalized: padding at both ends, a run of
\* several tokens merged into one data token
C21_Witness ==
    /\ IsText
    /\ pc = "resolved"
    /\ Cardinality(Padded(tokens)) = 2
    /\ Covers(events, tokens)
    /\ \E i \in 1..Len(ContentOf(events)) :
          /\ TypeOf(tokens, events, i) = "mathTextData"
          /\ \E p \in tokens[ContentOf(events)[i].tok].start..
                       (tokens[ContentOf(events)[i].tok].end - 1) : input[p] = "space"

====
